---- MODULE Spec2Model ----
(***************************************************************************)
(* Model of the Google-Traces-2019 dashboard repository.                   *)
(*                                                                         *)
(*   src/simulate_requests.py  the priority round-robin dispatcher that    *)
(*                             replays a trace in chunks (Spec, and        *)
(*                             FairSpec for its progress)                  *)
(*   src/app/wsgi.py           the log correlator parse_logs and the       *)
(*                             metrics endpoints built on it, reading any  *)
(*                             log (ParseSpec) or the log that the         *)
(*                             handler cluster_event writes (WsgiSpec)     *)
(*                                                                         *)
(* Both parts share one set of variables; each specification leaves the    *)
(* other part's variables at their initial value.                          *)
(***************************************************************************)
EXTENDS Integers, Sequences, FiniteSets, TLC

VARIABLES
    \* ---- src/simulate_requests.py ----
    trace,                  \* the rows of the CSV file, in file order
    chunk_index,            \* number of chunks handed to process_chunk so far
    priority_groups,        \* sorted_groups of the current chunk
    current_indices,        \* cursor of every priority group
    cycle_requests,         \* requests submitted in the current chunk
    total_rows_processed,
    successful_requests,
    failed_requests,
    pc,                     \* position of the script
    g,                      \* position of the for loop over priority_groups
    round,                  \* number of the current pass of the while loop
    order,                  \* history: the rows taken in the current chunk
    taken,                  \* history: ids of all rows taken so far
    posts,                  \* history: calls of requests.post in the current chunk
    \* ---- src/app/wsgi.py ----
    lines,                  \* the records of output/server_log.txt
    container_ids,          \* origin filter of the last parse_logs call
    events,                 \* events returned by the last parse_logs call
    outcome,                \* "idle", "returned" or the exception raised
    response,               \* what the endpoint computes from the events
    handlers                \* the cluster_event requests being handled

dvars == <<trace, chunk_index, priority_groups, current_indices, cycle_requests,
           total_rows_processed, successful_requests, failed_requests,
           pc, g, round, order, taken, posts>>
pvars == <<lines, container_ids, events, outcome, response, handlers>>
vars == <<dvars, pvars>>

(***************************************************************************)
(* Bounds of the model.  REQUESTS_PER_CYCLE and BATCH_SIZE are the         *)
(* constants of simulate_requests.py (100 and 1000 there), scaled down so  *)
(* that a chunk larger than the cycle budget fits the model.               *)
(***************************************************************************)
REQUESTS_PER_CYCLE == 2
BATCH_SIZE == 3
MaxRows == 4
MaxLines == 3
MaxHandlers == 2

\* no request: a worker of the Flask application that is free
NoRequest == [method |-> "", event_type |-> "", collection_id |-> "", cpus |-> <<>>,
              memory |-> <<>>, body |-> "", app |-> "", container |-> ""]
IdleHandler == [pc |-> "idle", req |-> NoRequest, status |-> 0, http |-> 0]

(***************************************************************************)
(*                  PART 1: src/simulate_requests.py                       *)
(***************************************************************************)

\* Values of the priority column; a row may also have no priority (NaN).
PriorityValues == {0, 1, 5}

\* A TraceRow as far as grouping sees it: its position in the file, its
\* priority value and whether the priority is missing.  The other columns
\* are read when the row is dispatched.
RowKinds == { [na |-> TRUE, pri |-> 0] } \cup { [na |-> FALSE, pri |-> p] : p \in PriorityValues }

\* Values of the collection_id and event columns of a row.
CollectionIdValues == {"123.0", "abc", "inf", "NaN"}
EventValues == {"SCHEDULE", "FAIL", "NaN"}

\* What requests.post can produce: a response status, or an exception.
Responses == {"200", "201", "500", "Timeout"}

IsNa(v) == v = "NaN"

\* int(float(collection_id)) succeeds
CoerceOk(cid) == cid \in {"123.0", "123"}

\* int(float(collection_id)) raises ValueError or TypeError, which line 73
\* catches; float("inf") is a float and int() of it raises OverflowError
CoerceCaught(cid) == cid \in {"abc"}

\* f"{int(float(collection_id))}"
Coerce(cid) == IF cid = "123.0" THEN "123" ELSE cid

\* a grouping that keeps the rows without priority apart
PriorityOfApart(row) == IF row.na THEN -1 ELSE row.pri

\* row['priority'], with the default for a missing priority
PriorityOf(row) == IF row.na THEN 0 ELSE row.pri

SetMax(S) == CHOOSE m \in S : \A x \in S : x <= m

RECURSIVE SortDesc(_)
SortDesc(S) == IF S = {} THEN <<>>
               ELSE <<SetMax(S)>> \o SortDesc(S \ {SetMax(S)})

RowsWith(df, p) == SelectSeq(df, LAMBDA row : PriorityOf(row) = p)

\* group_by_priority(df): one group per priority, descending priority
group_by_priority(df) ==
    LET keys == SortDesc({ PriorityOf(df[k]) : k \in 1..Len(df) })
    IN  [ k \in 1..Len(keys) |-> [priority |-> keys[k], traces |-> RowsWith(df, keys[k])] ]

\* pd.read_csv(..., chunksize=BATCH_SIZE): the k-th chunk (k from 0)
NumChunks == (Len(trace) + BATCH_SIZE - 1) \div BATCH_SIZE
Chunk(k) == SubSeq(trace, k * BATCH_SIZE + 1,
                   IF (k + 1) * BATCH_SIZE < Len(trace) THEN (k + 1) * BATCH_SIZE ELSE Len(trace))

Exhausted(b) == current_indices[b] >= Len(priority_groups[b].traces)

\* the condition of the while loop
WhileCond == /\ cycle_requests < REQUESTS_PER_CYCLE
             /\ \E b \in 1..Len(priority_groups) : ~Exhausted(b)

\* a dispatcher that tests the budget only in the while condition
BudgetReachedNever(c) == FALSE

\* a dispatcher that leaves the for loop only when the budget is exceeded
BudgetReachedLate(c) == c > REQUESTS_PER_CYCLE

\* the test that ends the for loop after a submitted request
BudgetReached(c) == c >= REQUESTS_PER_CYCLE

\* a dispatcher that keeps serving the same group
NextGroupStay(b) == b

\* the for loop moves on to the next priority group
NextGroup(b) == b + 1

\* the response counts as a success
IsSuccess(resp) == resp = "200"

\* a dispatcher that leaves the cursor where it is
AdvanceNot(c) == c

\* current_indices[priority] += 1
Advance(c) == c + 1

RECURSIVE SeqsUpTo(_, _)
SeqsUpTo(S, n) == IF n = 0 THEN { <<>> }
                  ELSE LET shorter == SeqsUpTo(S, n - 1)
                       IN  shorter \cup { Append(s, x) : s \in { t \in shorter : Len(t) = n - 1 }, x \in S }

Traces == { [ k \in 1..Len(s) |-> [id |-> k, na |-> s[k].na, pri |-> s[k].pri] ] : s \in SeqsUpTo(RowKinds, MaxRows) }

DInit == /\ trace \in Traces
         /\ chunk_index = 0
         /\ priority_groups = <<>>
         /\ current_indices = <<>>
         /\ cycle_requests = 0
         /\ total_rows_processed = 0
         /\ successful_requests = 0
         /\ failed_requests = 0
         /\ pc = "chunks"
         /\ g = 0
         /\ round = 0
         /\ order = <<>>
         /\ taken = {}
         /\ posts = 0

PInit == /\ lines = <<>>
         /\ container_ids = [none |-> TRUE, ids |-> {}]
         /\ events = <<>>
         /\ outcome = "idle"
         /\ response = <<>>
         /\ handlers = [ h \in 1..MaxHandlers |-> IdleHandler ]

Init == DInit /\ PInit

\* for chunk_index, df_chunk in enumerate(df_chunks): process_chunk(...) up to
\* the while loop
StartChunk ==
    /\ pc = "chunks"
    /\ chunk_index < NumChunks
    /\ priority_groups' = group_by_priority(Chunk(chunk_index))
    /\ current_indices' = [ b \in 1..Len(priority_groups') |-> 0 ]
    /\ cycle_requests' = 0
    /\ chunk_index' = chunk_index + 1
    /\ pc' = "while"
    /\ g' = 0
    /\ round' = 0
    /\ order' = <<>>
    /\ posts' = 0
    /\ UNCHANGED <<trace, total_rows_processed, successful_requests, failed_requests, taken>>
    /\ UNCHANGED pvars

\* the chunk iterator is exhausted: the final summary
Finish ==
    /\ pc = "chunks"
    /\ chunk_index >= NumChunks
    /\ pc' = "finished"
    /\ UNCHANGED <<trace, chunk_index, priority_groups, current_indices, cycle_requests,
                   total_rows_processed, successful_requests, failed_requests, g, round, order, taken, posts>>
    /\ UNCHANGED pvars

\* the while condition holds: a new pass of the for loop
WhileEnter ==
    /\ pc = "while"
    /\ WhileCond
    /\ pc' = "for"
    /\ g' = 1
    /\ round' = round + 1
    /\ UNCHANGED <<trace, chunk_index, priority_groups, current_indices, cycle_requests,
                   total_rows_processed, successful_requests, failed_requests, order, taken, posts>>
    /\ UNCHANGED pvars

\* the while condition fails: process_chunk returns
WhileExit ==
    /\ pc = "while"
    /\ ~WhileCond
    /\ pc' = "drained"
    /\ UNCHANGED <<trace, chunk_index, priority_groups, current_indices, cycle_requests,
                   total_rows_processed, successful_requests, failed_requests, g, round, order, taken, posts>>
    /\ UNCHANGED pvars

\* the for loop has visited every group
ForEnd ==
    /\ pc = "for"
    /\ g > Len(priority_groups)
    /\ pc' = "while"
    /\ UNCHANGED <<trace, chunk_index, priority_groups, current_indices, cycle_requests,
                   total_rows_processed, successful_requests, failed_requests, g, round, order, taken, posts>>
    /\ UNCHANGED pvars

\* if current_indices[priority] >= len(traces): continue
SkipExhausted ==
    /\ pc = "for"
    /\ g <= Len(priority_groups)
    /\ Exhausted(g)
    /\ g' = NextGroup(g)
    /\ UNCHANGED <<trace, chunk_index, priority_groups, current_indices, cycle_requests,
                   total_rows_processed, successful_requests, failed_requests, pc, round, order, taken, posts>>
    /\ UNCHANGED pvars

\* row = traces[current_indices[priority]]; total_rows_processed += 1
TakeRow ==
    /\ pc = "for"
    /\ g <= Len(priority_groups)
    /\ ~Exhausted(g)
    /\ total_rows_processed' = total_rows_processed + 1
    /\ order' = Append(order, [round |-> round, bucket |-> g,
                               id |-> priority_groups[g].traces[current_indices[g] + 1].id])
    /\ taken' = taken \cup { priority_groups[g].traces[current_indices[g] + 1].id }
    /\ UNCHANGED <<trace, chunk_index, priority_groups, round>>
    /\ UNCHANGED pvars

\* a row without collection_id or event, or whose collection_id is no number
RowSkipped(cid, ev) ==
    /\ IsNa(cid) \/ IsNa(ev) \/ CoerceCaught(cid)
    /\ TakeRow
    /\ failed_requests' = failed_requests + 1
    /\ current_indices' = [current_indices EXCEPT ![g] = Advance(@)]
    /\ g' = NextGroup(g)
    /\ UNCHANGED <<cycle_requests, successful_requests, pc, posts>>

\* a row whose collection_id makes int(float(...)) raise an exception that
\* lines 73-77 do not catch: the script ends with a traceback
RowCrashed(cid, ev) ==
    /\ ~IsNa(cid) /\ ~IsNa(ev) /\ ~CoerceOk(cid) /\ ~CoerceCaught(cid)
    /\ TakeRow
    /\ pc' = "crashed"
    /\ UNCHANGED <<current_indices, cycle_requests, successful_requests, failed_requests, g, posts>>

\* a row that is submitted, with the outcome of requests.post
RowPosted(cid, ev, resp) ==
    /\ ~IsNa(cid) /\ ~IsNa(ev) /\ CoerceOk(cid)
    /\ TakeRow
    /\ IF IsSuccess(resp)
       THEN successful_requests' = successful_requests + 1 /\ UNCHANGED failed_requests
       ELSE failed_requests' = failed_requests + 1 /\ UNCHANGED successful_requests
    /\ posts' = posts + 1
    /\ current_indices' = [current_indices EXCEPT ![g] = Advance(@)]
    /\ cycle_requests' = cycle_requests + 1
    /\ IF BudgetReached(cycle_requests')
       THEN pc' = "while" /\ g' = g
       ELSE pc' = pc /\ g' = NextGroup(g)

\* process_chunk has returned; time.sleep(0.5); next chunk
NextChunk ==
    /\ pc = "drained"
    /\ pc' = "chunks"
    /\ UNCHANGED <<trace, chunk_index, priority_groups, current_indices, cycle_requests,
                   total_rows_processed, successful_requests, failed_requests, g, round, order, taken, posts>>
    /\ UNCHANGED pvars

Next ==
    \/ StartChunk
    \/ Finish
    \/ WhileEnter
    \/ WhileExit
    \/ ForEnd
    \/ SkipExhausted
    \/ \E cid \in CollectionIdValues, ev \in EventValues : RowSkipped(cid, ev)
    \/ \E cid \in CollectionIdValues, ev \in EventValues : RowCrashed(cid, ev)
    \/ \E cid \in CollectionIdValues, ev \in EventValues, resp \in Responses : RowPosted(cid, ev, resp)
    \/ NextChunk

Spec == Init /\ [][Next]_vars

\* The script is one sequential process: while a statement can be executed,
\* one is executed.
FairSpec == Spec /\ WF_vars(Next)

(***************************************************************************)
(*                      PART 2: src/app/wsgi.py                            *)
(*                                                                         *)
(* A log line is a sequence of tokens.  A token stands for a piece of text *)
(* all of whose characters fall on the same side of every character class *)
(* the regular expressions of wsgi.py use (\S, [^?], [^/], [\d.], \d, .),  *)
(* or for a literal of those expressions; digits and the dot are tokens of *)
(* one character.  The regular expressions are evaluated on the tokens     *)
(* with the greedy semantics of Python's re module.                        *)
(***************************************************************************)

TS == "2024-01-01 00:00:00"
NL == "\n"
AppLit == " - App: "
HandledLit == " - Handled by: "
PathLit == " - path: "
PayloadLit == " - Payload: "
DashLit == " - "
StatusLit == " | Status: "
EventPrefix == "/cluster/event/"
Slash == "/"
CpusLit == "?cpus="
MemoryLit == "&memory="

DigitToks == {"0", "1", "2", "4", "5"}
Dot == "."

\* JSON documents that occur as payload text
DocOk == "{\"cpus\": 2, \"memory\": 4}"
DocBadCpus == "{\"cpus\": \"abc\", \"memory\": 4}"
DocBadMemory == "{\"cpus\": 2, \"memory\": \"abc\"}"
DocNullCpus == "{\"cpus\": null, \"memory\": 4}"
DocNoCpus == "{\"memory\": 4}"
DocNotJson == "{oops}"
Docs == {DocOk, DocBadCpus, DocBadMemory, DocNullCpus, DocNoCpus, DocNotJson}

\* JSON documents that occur as the body of a POST request only
DocOther == "{\"cpus\": 1, \"memory\": 5}"
DocEmpty == "{}"
PayloadDocs == Docs \cup {DocOther, DocEmpty}

\* Request bodies that never occur in the log as they are: the same object
\* as DocOk written without spaces, and no body at all
DocCompact == "{\"cpus\":2,\"memory\":4}"
NoBody == ""

\* character classes, as sets of tokens
SpaceToks == {TS, NL, AppLit, HandledLit, PathLit, PayloadLit, DashLit, StatusLit} \cup PayloadDocs
QuestionToks == {CpusLit}
SlashToks == {EventPrefix, Slash}
DigitOrDotToks == DigitToks \cup {Dot}

NoQuestion(t) == t \notin QuestionToks
NoSlash(t) == t \notin SlashToks
IsDigit(t) == t \in DigitToks
IsDigitOrDot(t) == t \in DigitOrDotToks
NotNewline(t) == t # NL

\* last position of the longest run of tokens of the class S that starts at i
\* (i - 1 when line[i] is not in S): a greedy  [class]*
RunIn(line, i, S) ==
    CHOOSE j \in (i - 1)..Len(line) :
        /\ \A k \in i..j : line[k] \in S
        /\ j = Len(line) \/ line[j + 1] \notin S

\* the same for a negated class: a greedy  [^class]*
RunNotIn(line, i, S) ==
    CHOOSE j \in (i - 1)..Len(line) :
        /\ \A k \in i..j : line[k] \notin S
        /\ j = Len(line) \/ line[j + 1] \in S

At(line, i, t) == i \in 1..Len(line) /\ line[i] = t

DigitVal(t) == CASE t = "0" -> 0 [] t = "1" -> 1 [] t = "2" -> 2 [] t = "4" -> 4 [] t = "5" -> 5 [] OTHER -> 0

\* int(text) of a run of digits
RECURSIVE Num(_)
Num(s) == IF s = <<>> THEN 0
          ELSE Num(SubSeq(s, 1, Len(s) - 1)) * 10 + DigitVal(s[Len(s)])

\* Floats are kept in hundredths.
DotPositions(s) == { k \in 1..Len(s) : s[k] = Dot }

\* float(text) of text in [\d.]+ succeeds: at most one dot, at least one digit
FloatOk(s) == /\ s # <<>>
              /\ \A k \in 1..Len(s) : IsDigitOrDot(s[k])
              /\ Cardinality(DotPositions(s)) <= 1
              /\ \E k \in 1..Len(s) : IsDigit(s[k])

\* float(text), in hundredths (two fractional digits are kept)
FloatVal(s) ==
    IF DotPositions(s) = {} THEN Num(s) * 100
    ELSE LET d == CHOOSE k \in DotPositions(s) : TRUE
             frac == SubSeq(s, d + 1, Len(s))
         IN  Num(SubSeq(s, 1, d - 1)) * 100
               + (IF Len(frac) = 0 THEN 0
                  ELSE IF Len(frac) = 1 THEN DigitVal(frac[1]) * 10
                  ELSE DigitVal(frac[1]) * 10 + DigitVal(frac[2]))

\* str.upper() of a token, left as it is
UpperId(t) == t

\* str.upper() of a token
Upper(t) == CASE t = "schedule" -> "SCHEDULE"
              [] t = "fail" -> "FAIL"
              [] t = "abc" -> "ABC"
              [] t = StatusLit -> " | STATUS: "
              [] OTHER -> t

UpperSeq(s) == [ k \in 1..Len(s) |-> Upper(s[k]) ]

NoMatch == [matched |-> FALSE]

\* re.match of the line pattern of parse_logs (line 116)
GeneralMatch(line) ==
    LET a == RunNotIn(line, 3, SpaceToks)          \* App: \S+
        c == RunNotIn(line, a + 2, SpaceToks)      \* Handled by: (\S+)
        p == RunNotIn(line, c + 3, QuestionToks)    \* (/cluster/event/[^?]+)
        q1 == RunIn(line, p + 2, DigitOrDotToks) \* \?cpus=[\d.]+
        q2 == RunIn(line, q1 + 2, DigitOrDotToks) \* &memory=[\d.]+
        hasQuery == /\ At(line, p + 1, CpusLit) /\ q1 >= p + 2
                    /\ At(line, q1 + 1, MemoryLit) /\ q2 >= q1 + 2
    IN  IF /\ At(line, 1, TS) /\ At(line, 2, AppLit) /\ a >= 3
           /\ At(line, a + 1, HandledLit) /\ c >= a + 2
           /\ At(line, c + 1, PathLit)
           /\ At(line, c + 2, EventPrefix) /\ p >= c + 3
        THEN [matched |-> TRUE,
              timestamp |-> line[1],
              container_id |-> SubSeq(line, a + 2, c),
              path |-> SubSeq(line, c + 2, p),
              query |-> IF hasQuery THEN SubSeq(line, p + 1, q2) ELSE <<>>,
              cpus |-> IF hasQuery THEN SubSeq(line, p + 2, q1) ELSE <<>>,
              memory |-> IF hasQuery THEN SubSeq(line, q1 + 2, q2) ELSE <<>>]
        ELSE NoMatch

\* re.match(r'/cluster/event/([^/]+)/([^?]+)', path) (line 126)
PathMatch(path) ==
    LET t == RunNotIn(path, 2, SlashToks)
    IN  IF At(path, 1, EventPrefix) /\ t >= 2 /\ At(path, t + 1, Slash) /\ Len(path) >= t + 2
        THEN [matched |-> TRUE,
              event_type |-> UpperSeq(SubSeq(path, 2, t)),
              collection_id |-> SubSeq(path, t + 2, Len(path))]
        ELSE NoMatch

\* re.match(r'.*Payload: ({.*})', line) (line 142): the payload text
PayloadPositions(line) == { k \in 1..(Len(line) - 1) : line[k] = PayloadLit /\ line[k + 1] \in PayloadDocs }
PayloadMatches(line) == PayloadPositions(line) # {}
PayloadText(line) == line[SetMax(PayloadPositions(line)) + 1]

\* JSON values of the cpus and memory keys
JAbsent == [k |-> "absent", v |-> 0, s |-> <<>>]
JNum(n) == [k |-> "num", v |-> n, s |-> <<>>]
JStr(t) == [k |-> "str", v |-> 0, s |-> t]
JNull == [k |-> "null", v |-> 0, s |-> <<>>]

\* json.loads of the payload text
JsonLoads(doc) ==
    CASE doc = DocOk -> [ok |-> TRUE, cpus |-> JNum(200), memory |-> JNum(400)]
      [] doc = DocBadCpus -> [ok |-> TRUE, cpus |-> JStr(<<"abc">>), memory |-> JNum(400)]
      [] doc = DocBadMemory -> [ok |-> TRUE, cpus |-> JNum(200), memory |-> JStr(<<"abc">>)]
      [] doc = DocNullCpus -> [ok |-> TRUE, cpus |-> JNull, memory |-> JNum(400)]
      [] doc = DocNoCpus -> [ok |-> TRUE, cpus |-> JAbsent, memory |-> JNum(400)]
      [] doc = DocOther -> [ok |-> TRUE, cpus |-> JNum(100), memory |-> JNum(500)]
      [] doc = DocEmpty -> [ok |-> TRUE, cpus |-> JAbsent, memory |-> JAbsent]
      [] doc = DocCompact -> [ok |-> TRUE, cpus |-> JNum(200), memory |-> JNum(400)]
      [] OTHER -> [ok |-> FALSE, cpus |-> JAbsent, memory |-> JAbsent]

\* float(payload.get(key, 0)): the value, or the exception raised
FloatOfJson(j) ==
    CASE j.k = "absent" -> [exc |-> "", v |-> 0]
      [] j.k = "num" -> [exc |-> "", v |-> j.v]
      [] j.k = "str" -> IF FloatOk(j.s) THEN [exc |-> "", v |-> FloatVal(j.s)]
                        ELSE [exc |-> "ValueError", v |-> 0]
      [] OTHER -> [exc |-> "TypeError", v |-> 0]

\* lines 144-149: cpu and memory out of the payload text
PayloadResources(doc) ==
    LET payload == JsonLoads(doc)
        c == FloatOfJson(payload.cpus)
        m == FloatOfJson(payload.memory)
    IN  IF ~payload.ok THEN [exc |-> "", cpu |-> 0, memory |-> 0]
        ELSE IF c.exc = "ValueError" THEN [exc |-> "", cpu |-> 0, memory |-> 0]
        ELSE IF c.exc # "" THEN [exc |-> c.exc, cpu |-> 0, memory |-> 0]
        ELSE IF m.exc = "ValueError" THEN [exc |-> "", cpu |-> c.v, memory |-> 0]
        ELSE IF m.exc # "" THEN [exc |-> m.exc, cpu |-> c.v, memory |-> 0]
        ELSE [exc |-> "", cpu |-> c.v, memory |-> m.v]

\* range(i + 1, min(i + 4, len(lines))), with positions counted from 1
Window(ls, i) == { j \in (i + 1)..(i + 3) : j <= Len(ls) }

SetMin(S) == CHOOSE m \in S : \A x \in S : m <= x

\* lines 134-150: cpu and memory of the event of line i
Resources(ls, i, m) ==
    IF m.query # <<>>
    THEN IF FloatOk(m.cpus) /\ FloatOk(m.memory)
         THEN [exc |-> "", cpu |-> FloatVal(m.cpus), memory |-> FloatVal(m.memory)]
         ELSE [exc |-> "ValueError", cpu |-> 0, memory |-> 0]
    ELSE LET js == { j \in Window(ls, i) : PayloadMatches(ls[j]) }
         IN  IF js = {} THEN [exc |-> "", cpu |-> 0, memory |-> 0]
             ELSE PayloadResources(PayloadText(ls[SetMin(js)]))

\* re.match(rf'.*path: {re.escape(path + query)}.*\| Status: (\d+)', line):
\* the positions of a "| Status: <digits>" that the pattern can reach
StatusPositions(line, pq) ==
    { q \in 1..Len(line) :
        /\ line[q] = StatusLit
        /\ RunIn(line, q + 1, DigitToks) >= q + 1
        /\ \E p \in 1..Len(line) :
              /\ line[p] = PathLit
              /\ p + Len(pq) < q
              /\ SubSeq(line, p + 1, p + Len(pq)) = pq
              /\ \A k \in 1..(q - 1) : k <= p \/ k > p + Len(pq) => NotNewline(line[k]) }
StatusMatches(line, pq) == StatusPositions(line, pq) # {}
StatusValue(line, pq) ==
    LET q == SetMax(StatusPositions(line, pq))
    IN  Num(SubSeq(line, q + 1, RunIn(line, q + 1, DigitToks)))

NoStatus == <<>>

\* lines 152-157: status of the event of line i
StatusOf(ls, i, m) ==
    LET pq == m.path \o m.query
        js == { j \in Window(ls, i) : StatusMatches(ls[j], pq) }
    IN  IF js = {} THEN NoStatus ELSE << StatusValue(ls[SetMin(js)], pq) >>

\* the origin filter: None, or a list of container ids
NoFilter == [none |-> TRUE, ids |-> {}]
FilterOf(S) == [none |-> FALSE, ids |-> S]

\* truth value of container_ids in  "if container_ids and ..."
Truthy(cids) == ~cids.none /\ cids.ids # {}

\* one iteration of the loop of parse_logs over line i
ParseLine(ls, i, cids) ==
    LET m == GeneralMatch(ls[i])
        pm == PathMatch(m.path)
        r == Resources(ls, i, m)
    IN  IF ~m.matched THEN [kind |-> "skip"]
        ELSE IF Truthy(cids) /\ m.container_id \notin cids.ids THEN [kind |-> "skip"]
        ELSE IF ~pm.matched THEN [kind |-> "skip"]
        ELSE IF r.exc # "" THEN [kind |-> "raise", exc |-> r.exc]
        ELSE [kind |-> "event",
              event |-> [timestamp |-> m.timestamp,
                         container_id |-> m.container_id,
                         event_type |-> pm.event_type,
                         collection_id |-> pm.collection_id,
                         cpu |-> r.cpu,
                         memory |-> r.memory,
                         status |-> StatusOf(ls, i, m),
                         priority |-> 0,
                         line |-> i]]

\* parse_logs(container_ids) from line i on, evs being the events so far
RECURSIVE ParseFrom(_, _, _, _)
ParseFrom(ls, i, cids, evs) ==
    IF i > Len(ls) THEN [outcome |-> "returned", events |-> evs]
    ELSE LET step == ParseLine(ls, i, cids)
         IN  IF step.kind = "raise" THEN [outcome |-> step.exc, events |-> <<>>]
             ELSE IF step.kind = "event" THEN ParseFrom(ls, i + 1, cids, Append(evs, step.event))
             ELSE ParseFrom(ls, i + 1, cids, evs)

parse_logs(ls, cids) == ParseFrom(ls, 1, cids, <<>>)

\* re.match of the line pattern of build_app_container_mapping (line 56)
MappingMatch(line) ==
    LET a == RunNotIn(line, 3, SpaceToks)
        c == RunNotIn(line, a + 2, SpaceToks)
    IN  IF /\ At(line, 1, TS) /\ At(line, 2, AppLit) /\ a >= 3
           /\ At(line, a + 1, HandledLit) /\ c >= a + 2
           /\ At(line, c + 1, PathLit)
        THEN [matched |-> TRUE, app_name |-> SubSeq(line, 3, a), container_id |-> SubSeq(line, a + 2, c)]
        ELSE NoMatch

KnownApps == {"app1", "app2", "app3"}

\* build_app_container_mapping()[app]: the container ids seen for the app
build_app_container_mapping(ls, app) ==
    { MappingMatch(ls[k]).container_id : k \in { n \in 1..Len(ls) :
          MappingMatch(ls[n]).matched /\ MappingMatch(ls[n]).app_name = <<app>> } }

\* container_ids = app_to_containers.get(server_filter, []) if server_filter != 'all' else None
ContainerIdsFor(ls, server_filter) ==
    IF server_filter = "all" THEN NoFilter
    ELSE IF server_filter \in KnownApps THEN FilterOf(build_app_container_mapping(ls, server_filter))
    ELSE FilterOf({})

EventTypes == {"FAIL", "SCHEDULE", "FINISH", "ENABLE", "EVICT", "LOST"}

\* get_event_distribution: event_counts of the events
EventCounts(evs) ==
    [ t \in EventTypes |-> Cardinality({ k \in 1..Len(evs) : evs[k].event_type = <<t>> }) ]

\* successful_requests of get_metrics: events whose status is 200
SuccessfulEvents(evs) == Cardinality({ k \in 1..Len(evs) : evs[k].status = <<200>> })

\* round(successful_requests / total_requests * 100, 1), in tenths of a percent;
\* no quotient of fewer than 16 events lies halfway between two tenths
SuccessRate(evs) ==
    IF Len(evs) = 0 THEN 0
    ELSE (2000 * SuccessfulEvents(evs) + Len(evs)) \div (2 * Len(evs))

\* the slice [-100:] of extract_cpu_memory_usage, scaled down
SeriesWindow == 2

\* a slice that keeps the oldest values
LastNFirst(s, n) == IF Len(s) > n THEN SubSeq(s, 1, n) ELSE s

\* s[-n:]
LastN(s, n) == IF Len(s) > n THEN SubSeq(s, Len(s) - n + 1, Len(s)) ELSE s

\* extract_cpu_memory_usage(events)
extract_cpu_memory_usage(evs) ==
    [ cpu |-> LastN([ k \in 1..Len(evs) |-> evs[k].cpu ], SeriesWindow),
      memory |-> LastN([ k \in 1..Len(evs) |-> evs[k].memory ], SeriesWindow) ]

\* x or [0]
OrZero(s) == IF s = <<>> THEN <<0>> ELSE s

\* what get_metrics, get_event_distribution and get_cpu_memory_usage answer
Aggregate(evs) ==
    [ total_requests |-> Len(evs),
      success_rate |-> SuccessRate(evs),
      event_counts |-> EventCounts(evs),
      cpu_usage |-> OrZero(extract_cpu_memory_usage(evs).cpu),
      memory_usage |-> OrZero(extract_cpu_memory_usage(evs).memory) ]

\* The records that the log may hold.
Prefix(app, c) == <<TS, AppLit, app, HandledLit, c>>
PathRecord(app, c, path) == Prefix(app, c) \o <<PathLit>> \o path \o <<NL>>
StatusRecord(app, c, path, status) == Prefix(app, c) \o <<PathLit>> \o path \o <<StatusLit>> \o status \o <<NL>>
WrittenStatusRecord(app, c, path, status) == Prefix(app, c) \o <<DashLit>> \o path \o <<StatusLit>> \o status \o <<NL>>
PayloadRecord(app, c, doc) == Prefix(app, c) \o <<PayloadLit, doc, NL>>

PostPath == <<EventPrefix, "SCHEDULE", Slash, "1">>
GetPath == <<EventPrefix, "fail", Slash, "2", CpusLit, "2", MemoryLit, "4">>
BadGetPath == <<EventPrefix, "SCHEDULE", Slash, "1", CpusLit, Dot, MemoryLit, "4">>
SubmitPath == <<EventPrefix, "SUBMIT", Slash, "1">>
DeepPath == <<EventPrefix, "SCHEDULE", Slash, "1", Slash, "2">>
ShortPath == <<EventPrefix, "SCHEDULE">>
HomePath == <<Slash>>

LogRecords ==
    { PathRecord("app1", "c1", PostPath),
      StatusRecord("app1", "c1", PostPath, <<"2", "0", "0">>),
      WrittenStatusRecord("app1", "c1", PostPath, <<"2", "0", "0">>),
      PathRecord("app2", "c2", GetPath),
      StatusRecord("app2", "c2", GetPath, <<"5", "0", "0">>),
      PathRecord("app1", "c1", BadGetPath),
      PathRecord("app2", "c2", SubmitPath),
      PathRecord("app1", "c1", DeepPath),
      PathRecord("app1", "c1", ShortPath),
      PathRecord("app1", "c1", HomePath) }
    \cup { PayloadRecord("app1", "c1", doc) : doc \in Docs }

ServerFilters == {"all", "app1", "app2", "app3"}

\* a handler appends one record to the log
LogAppend(rec) ==
    /\ outcome = "idle"
    /\ Len(lines) < MaxLines
    /\ lines' = Append(lines, rec)
    /\ UNCHANGED <<container_ids, events, outcome, response, handlers>>
    /\ UNCHANGED dvars

\* a metrics endpoint (get_metrics, get_event_distribution, ...) derives the
\* origin filter from its server parameter and calls parse_logs
Endpoint(server_filter) ==
    /\ outcome = "idle"
    /\ container_ids' = ContainerIdsFor(lines, server_filter)
    /\ LET result == parse_logs(lines, container_ids')
       IN  events' = result.events /\ outcome' = result.outcome
    /\ response' = IF outcome' = "returned" THEN <<Aggregate(events')>> ELSE <<>>
    /\ UNCHANGED <<lines, handlers>>
    /\ UNCHANGED dvars

\* the endpoint has answered (or failed); the events are discarded
Respond ==
    /\ outcome # "idle"
    /\ outcome' = "idle"
    /\ events' = <<>>
    /\ container_ids' = NoFilter
    /\ response' = <<>>
    /\ UNCHANGED <<lines, handlers>>
    /\ UNCHANGED dvars

ParseNext ==
    \/ \E rec \in LogRecords : LogAppend(rec)
    \/ \E server_filter \in ServerFilters : Endpoint(server_filter)
    \/ Respond

ParseInit == /\ PInit
             /\ trace = <<>>
             /\ chunk_index = 0
             /\ priority_groups = <<>>
             /\ current_indices = <<>>
             /\ cycle_requests = 0
             /\ total_rows_processed = 0
             /\ successful_requests = 0
             /\ failed_requests = 0
             /\ pc = "chunks"
             /\ g = 0
             /\ round = 0
             /\ order = <<>>
             /\ taken = {}
             /\ posts = 0

ParseSpec == ParseInit /\ [][ParseNext]_vars

(***************************************************************************)
(* The writer: cluster_event and log_request.  Every worker handles one    *)
(* request; a worker appends its records one logger call at a time, so the *)
(* records of two requests may interleave.                                 *)
(***************************************************************************)

\* The requests to /cluster/event/<event_type>/<collection_id>.
GetRequest(ev, cid, cpus, memory, app, c) ==
    [method |-> "GET", event_type |-> ev, collection_id |-> cid, cpus |-> cpus,
     memory |-> memory, body |-> NoBody, app |-> app, container |-> c]
PostRequest(ev, cid, body, app, c) ==
    [method |-> "POST", event_type |-> ev, collection_id |-> cid, cpus |-> <<>>,
     memory |-> <<>>, body |-> body, app |-> app, container |-> c]

Requests ==
    { GetRequest("SCHEDULE", "1", <<"2">>, <<"4">>, "app1", "c1"),
      GetRequest("fail", "2", <<"2">>, <<"4">>, "app2", "c2"),
      PostRequest("SCHEDULE", "1", DocCompact, "app1", "c1"),
      PostRequest("FAIL", "2", DocOther, "app2", "c2"),
      PostRequest("SCHEDULE", "1", DocNotJson, "app1", "c1"),
      PostRequest("SCHEDULE", "1", DocEmpty, "app1", "c1"),
      PostRequest("SCHEDULE", "1", NoBody, "app1", "c1") }

\* payload = request.get_json() gives an object that is not empty
PayloadTruthy(body) == body # NoBody /\ JsonLoads(body).ok /\ body # DocEmpty

\* json.dumps(payload, default=str): the object in the layout of json.dumps
JsonDumps(body) == IF body = DocCompact THEN DocOk ELSE body

\* the path that cluster_event logs
RequestPath(req) ==
    IF req.method = "GET"
    THEN <<EventPrefix, req.event_type, Slash, req.collection_id, CpusLit>> \o req.cpus
         \o <<MemoryLit>> \o req.memory
    ELSE <<EventPrefix, req.event_type, Slash, req.collection_id>>

\* status = 500 if event_type.upper() == 'FAIL' else 200
StatusFor(ev) == IF Upper(ev) = "FAIL" THEN 500 ELSE 200

\* "%d" % status
StatusText(status) == IF status = 500 THEN <<"5", "0", "0">> ELSE <<"2", "0", "0">>

\* return render_template('index.html', logs=logs): the status of the answer
RenderedStatus == 200

\* a POST request whose body is missing, empty or no JSON: answered with 400,
\* nothing is logged (the logger calls of lines 240 and 250 carry no extra
\* fields, so the formatter drops their records)
Reject(h, req) ==
    /\ handlers[h].pc = "idle"
    /\ req.method = "POST"
    /\ ~PayloadTruthy(req.body)
    /\ handlers' = [handlers EXCEPT ![h] = [pc |-> "done", req |-> req, status |-> 0, http |-> 400]]
    /\ UNCHANGED <<lines, container_ids, events, outcome, response>>
    /\ UNCHANGED dvars

\* log_request, line 73: logger.info("path: %s", path)
LogPath(h, req) ==
    /\ handlers[h].pc = "idle"
    /\ outcome = "idle"
    /\ req.method = "GET" \/ PayloadTruthy(req.body)
    /\ lines' = Append(lines, PathRecord(req.app, req.container, RequestPath(req)))
    /\ handlers' = [handlers EXCEPT ![h] = [pc |-> "status", req |-> req,
                                            status |-> StatusFor(req.event_type), http |-> 0]]
    /\ UNCHANGED <<container_ids, events, outcome, response>>
    /\ UNCHANGED dvars

\* log_request, lines 76-78: logger.info("%s | Status: %d", path, status); a
\* GET request is answered after it
LogStatus(h) ==
    /\ handlers[h].pc = "status"
    /\ outcome = "idle"
    /\ lines' = Append(lines, WrittenStatusRecord(handlers[h].req.app, handlers[h].req.container,
                                                  RequestPath(handlers[h].req),
                                                  StatusText(handlers[h].status)))
    /\ handlers' = [handlers EXCEPT ![h] =
                       IF @.req.method = "POST"
                       THEN [@ EXCEPT !.pc = "payload"]
                       ELSE [@ EXCEPT !.pc = "done", !.http = RenderedStatus]]
    /\ UNCHANGED <<container_ids, events, outcome, response>>
    /\ UNCHANGED dvars

\* log_request, lines 81-83: logger.info("Payload: %s", json.dumps(payload));
\* the POST request is answered after it
LogPayload(h) ==
    /\ handlers[h].pc = "payload"
    /\ outcome = "idle"
    /\ lines' = Append(lines, PayloadRecord(handlers[h].req.app, handlers[h].req.container,
                                            JsonDumps(handlers[h].req.body)))
    /\ handlers' = [handlers EXCEPT ![h] = [@ EXCEPT !.pc = "done", !.http = RenderedStatus]]
    /\ UNCHANGED <<container_ids, events, outcome, response>>
    /\ UNCHANGED dvars

WsgiNext ==
    \/ \E h \in 1..MaxHandlers, req \in Requests : Reject(h, req)
    \/ \E h \in 1..MaxHandlers, req \in Requests : LogPath(h, req)
    \/ \E h \in 1..MaxHandlers : LogStatus(h)
    \/ \E h \in 1..MaxHandlers : LogPayload(h)
    \/ \E server_filter \in ServerFilters : Endpoint(server_filter)
    \/ Respond

WsgiSpec == ParseInit /\ [][WsgiNext]_vars

(***************************************************************************)
(*                 PROPERTIES OF THE DISPATCHER (Spec)                     *)
(***************************************************************************)

BucketLen(b) == Len(priority_groups[b].traces)

\* number of rows taken from group b among the takes lo..hi of the chunk
CountIn(b, lo, hi) == Cardinality({ k \in lo..hi : k \in 1..Len(order) /\ order[k].bucket = b })

\* cursor of group b right after the i-th take of the chunk
CursorAfter(b, i) == CountIn(b, 1, i)

\* cursor of group b when pass r of the while loop started
CursorAtRound(b, r) == Cardinality({ k \in 1..Len(order) : order[k].bucket = b /\ order[k].round < r })

ServedInRound(b, r) == \E k \in 1..Len(order) : order[k].bucket = b /\ order[k].round = r

\* groups that had rows when the current pass started and got no turn in it
UnservedInLastRound == { b \in 1..Len(priority_groups) :
                            /\ CursorAtRound(b, round) < BucketLen(b)
                            /\ ~ServedInRound(b, round) }

AllRowIds == { trace[k].id : k \in 1..Len(trace) }

\* C2: at the end of the run every row of the trace has been taken by the
\* dispatcher (rows left over by the cycle budget were carried on, not dropped).
C2_AllRowsConsumed == pc = "finished" => taken = AllRowIds

\* C3 (as stated): when process_chunk returns, every group that had rows when
\* the last pass started has been served in that pass.
C3_RoundCompletes == pc = "drained" => UnservedInLastRound = {}

\* C3 (amended): the budget is tested after every submitted request: the for
\* loop is only ever inside a pass while the budget is not reached, and a chunk
\* that ends with a group left unserved in its last pass ends with exactly
\* REQUESTS_PER_CYCLE submitted requests, the last take of the chunk being a
\* group that precedes the unserved ones.
C3_BudgetTestedAfterEveryRequest ==
    /\ pc = "for" => cycle_requests < REQUESTS_PER_CYCLE
    /\ (pc = "drained" /\ UnservedInLastRound # {}) =>
          /\ cycle_requests = REQUESTS_PER_CYCLE
          /\ order # <<>>
          /\ order[Len(order)].round = round
          /\ \A b \in UnservedInLastRound : order[Len(order)].bucket < b

\* C3 witness: a chunk that ended in the middle of a pass
C3_Witness == pc = "drained" /\ UnservedInLastRound # {}

(***************************************************************************)
(*                 PROPERTIES OF parse_logs (ParseSpec)                    *)
(*                                                                         *)
(* The records are described here by the documented line format, not by    *)
(* the regular expressions of the code.                                    *)
(***************************************************************************)

\* a record "... - path: <path> | Status: <int>"
IsStatusRecord(rec) == At(rec, 6, PathLit) /\ \E k \in 1..Len(rec) : rec[k] = StatusLit

\* a record "... - Payload: <json>"
IsPayloadRecord(rec) == \E k \in 1..Len(rec) : rec[k] = PayloadLit

HasQueryString(rec) == \E k \in 1..Len(rec) : rec[k] = CpusLit

\* the text after "path: " up to the end of the line
PathText(rec) == SubSeq(rec, 7, Len(rec) - 1)

\* a primary record "... - path: /cluster/event/<type>/<collection>[?query]"
IsPrimaryRecord(rec) ==
    /\ At(rec, 6, PathLit) /\ At(rec, 7, EventPrefix)
    /\ Len(rec) >= 11 /\ NoSlash(rec[8]) /\ rec[9] = Slash /\ rec[10] # NL
    /\ rec[Len(rec)] = NL
    /\ ~IsStatusRecord(rec)

\* the status record of the path text pq
IsStatusRecordOf(rec, pq) ==
    /\ At(rec, 6, PathLit)
    /\ Len(rec) >= 6 + Len(pq) + 3
    /\ SubSeq(rec, 7, 6 + Len(pq)) = pq
    /\ rec[7 + Len(pq)] = StatusLit
    /\ rec[Len(rec)] = NL
    /\ \A k \in (8 + Len(pq))..(Len(rec) - 1) : IsDigit(rec[k])

StatusRecordValue(rec, pq) == Num(SubSeq(rec, 8 + Len(pq), Len(rec) - 1))

EventsOfLine(i) == { n \in 1..Len(events) : events[n].line = i }

KnownTypeEvents == { n \in 1..Len(events) : events[n].event_type \in { <<t>> : t \in EventTypes } }

SumOfCounts(c) == c["FAIL"] + c["SCHEDULE"] + c["FINISH"] + c["ENABLE"] + c["EVICT"] + c["LOST"]

LowerCaseTypes == {"schedule", "fail"}

\* the lower-case spelling of a path segment
Lower(t) == CASE t = "SCHEDULE" -> "schedule" [] t = "FAIL" -> "fail" [] OTHER -> t

\* C4 (as stated): every Event has one of the six event types and a
\* collectionId without a slash, so the six counts of eventDistribution sum to
\* totalRequests.
C4_KnownTypesOnly ==
    outcome = "returned" =>
        /\ \A n \in 1..Len(events) :
              /\ events[n].event_type \in { <<t>> : t \in EventTypes }
              /\ \A k \in 1..Len(events[n].collection_id) : events[n].collection_id[k] # Slash
        /\ SumOfCounts(EventCounts(events)) = Len(events)

\* C4 (amended): every Event has as eventType the upper-cased first path
\* segment of its line, whatever that segment is, and as collectionId the
\* non-empty rest of the path, which has no '?' but may have slashes; a line
\* whose path has no second segment produces no Event; the six counts of
\* eventDistribution sum to the number of Events of a known type, which is at
\* most totalRequests.
C4_TypeIsUpperCasedFirstSegment ==
    outcome = "returned" =>
        /\ \A n \in 1..Len(events) :
              LET e == events[n]
                  rec == lines[e.line]
                  tl == Len(e.event_type)
                  cl == Len(e.collection_id)
              IN  /\ tl >= 1 /\ cl >= 1
                  /\ At(rec, 6, PathLit) /\ At(rec, 7, EventPrefix)
                  /\ Len(rec) >= 8 + tl + cl
                  /\ \A k \in 1..tl : /\ NoSlash(e.event_type[k])
                                      /\ e.event_type[k] \notin LowerCaseTypes
                                      /\ Lower(e.event_type[k]) = Lower(rec[7 + k])
                  /\ rec[8 + tl] = Slash
                  /\ e.collection_id = SubSeq(rec, 9 + tl, 8 + tl + cl)
                  /\ \A k \in 1..cl : NoQuestion(e.collection_id[k])
                  /\ Len(rec) > 8 + tl + cl => rec[9 + tl + cl] = CpusLit
        /\ \A i \in 1..Len(lines) :
              (\A k \in 8..Len(lines[i]) : lines[i][k] # Slash) => EventsOfLine(i) = {}
        /\ SumOfCounts(EventCounts(events)) = Cardinality(KnownTypeEvents)
        /\ SumOfCounts(EventCounts(events)) <= Len(events)

\* C4 witness: Events of an unknown type, of a type spelled in lower case in
\* the log and with a slash in the collectionId have been returned
C4_Witness ==
    /\ outcome = "returned"
    /\ \E n \in 1..Len(events) : events[n].event_type = <<"SUBMIT">>
    /\ \E n \in 1..Len(events) : events[n].event_type = <<"FAIL">> /\ lines[events[n].line][8] = "fail"
    /\ \E n \in 1..Len(events) : \E k \in 1..Len(events[n].collection_id) : events[n].collection_id[k] = Slash
    /\ SumOfCounts(EventCounts(events)) < Len(events)

\* C5: no Event comes from a status record or a payload record of the
\* documented format: such a record never matches the primary shape.
C5_StatusAndPayloadRecordsAreNoEvents ==
    outcome = "returned" =>
        \A n \in 1..Len(events) : /\ ~IsStatusRecord(lines[events[n].line])
                                  /\ ~IsPayloadRecord(lines[events[n].line])

\* C6: when the origin filter is a set of origin identifiers (the empty set
\* included) every Event has its originId in that set.
C6_EventsWithinFilter ==
    (outcome = "returned" /\ ~container_ids.none) =>
        \A n \in 1..Len(events) : events[n].container_id \in container_ids.ids

\* the status the records after line i hold for it: the integer of the first
\* of the next three records that repeats its path text with a Status suffix
StatusInWindow(i) ==
    LET pq == PathText(lines[i])
        js == { j \in (i + 1)..(i + 3) : j <= Len(lines) /\ IsStatusRecordOf(lines[j], pq) }
    IN  IF js = {} THEN NoStatus ELSE << StatusRecordValue(lines[SetMin(js)], pq) >>

\* C7: the status of every Event is the integer of the first status record of
\* its path and query among the three records after its primary line, and nil
\* if there is none.
C7_StatusFromWindow ==
    outcome = "returned" =>
        \A n \in 1..Len(events) : events[n].status = StatusInWindow(events[n].line)

PayloadsInWindow(i) == { j \in (i + 1)..(i + 3) : j <= Len(lines) /\ IsPayloadRecord(lines[j]) }

\* the text of a payload record
PayloadOf(rec) == rec[(CHOOSE k \in 1..Len(rec) : rec[k] = PayloadLit) + 1]

\* the value of a key of a payload, 0 when the key is absent or malformed
FieldOrZero(j) ==
    CASE j.k = "num" -> j.v
      [] j.k = "str" /\ FloatOk(j.s) -> FloatVal(j.s)
      [] OTHER -> 0

\* C8: an Event of a primary line without a query string that has a payload
\* record among the next three records has the cpus and the memory of that
\* payload, each 0 on its own when absent or malformed.
C8_ResourcesFromPayload ==
    outcome = "returned" =>
        \A n \in 1..Len(events) :
            LET i == events[n].line
                js == PayloadsInWindow(i)
                payload == JsonLoads(PayloadOf(lines[SetMin(js)]))
            IN  (~HasQueryString(lines[i]) /\ js # {}) =>
                    /\ events[n].cpu = FieldOrZero(payload.cpus)
                    /\ events[n].memory = FieldOrZero(payload.memory)

\* C9: parse_logs never raises, whatever the records hold.
C9_NeverAborts == outcome \in {"idle", "returned"}

PassesFilter(rec) == container_ids.none \/ <<rec[5]>> \in container_ids.ids

\* C10: a primary line (its resources not given by a query string) that
\* passes the origin filter and has neither a payload record nor a status
\* record among the next three records yields exactly one Event, with cpu 0,
\* memory 0 and no status; Events come in the order of their primary lines.
C10_EventWithoutCorrelation ==
    outcome # "idle" =>
        /\ \A i \in 1..Len(lines) :
              ( /\ IsPrimaryRecord(lines[i])
                /\ ~HasQueryString(lines[i])
                /\ PassesFilter(lines[i])
                /\ PayloadsInWindow(i) = {}
                /\ StatusInWindow(i) = NoStatus )
              => /\ Cardinality(EventsOfLine(i)) = 1
                 /\ \A n \in EventsOfLine(i) : /\ events[n].cpu = 0
                                               /\ events[n].memory = 0
                                               /\ events[n].status = NoStatus
        /\ \A n, k \in 1..Len(events) : n < k => events[n].line < events[k].line

(***************************************************************************)
(*            Properties of the aggregator and of the writer               *)
(***************************************************************************)

\* no worker is in the middle of a request
Quiescent == \A h \in 1..MaxHandlers : handlers[h].pc \in {"idle", "done"}

\* the workers whose request was accepted and logged
Logged == { h \in 1..MaxHandlers : handlers[h].pc = "done" /\ handlers[h].status # 0 }

\* the log is that of one SCHEDULE event of status 200 and one FAIL event of
\* status 500
ScheduleAndFailLogged ==
    /\ Quiescent
    /\ Cardinality(Logged) = 2
    /\ \E h \in Logged : Upper(handlers[h].req.event_type) = "SCHEDULE" /\ handlers[h].status = 200
    /\ \E h \in Logged : Upper(handlers[h].req.event_type) = "FAIL" /\ handlers[h].status = 500

\* C11: the success rate is 100 times the number of events of status 200
\* over the number of events (to one decimal, 0 without events), and for the
\* log of one SCHEDULE event of status 200 and one FAIL event of status 500
\* the distribution is SCHEDULE 1, FAIL 1, the other types 0 and the success
\* rate is 50.0.
C11_SuccessRate ==
    outcome = "returned" =>
        LET n == Len(events)
            ok == Cardinality({ k \in 1..n : events[k].status = <<200>> })
            d == response[1].success_rate * n - 1000 * ok
        IN  /\ response[1].total_requests = n
            /\ n = 0 => response[1].success_rate = 0
            /\ 2 * d <= n /\ -2 * d <= n
            /\ (ScheduleAndFailLogged /\ container_ids = NoFilter) =>
                   /\ response[1].event_counts =
                          [ t \in EventTypes |-> IF t \in {"SCHEDULE", "FAIL"} THEN 1 ELSE 0 ]
                   /\ response[1].success_rate = 500

\* C12: without events the aggregate is the zero state (no requests, success
\* rate 0, the six counts 0, both series [0]); with events the two series are
\* the cpu and memory values of the last SeriesWindow events in log order.
C12_SeriesAreLastEvents ==
    outcome = "returned" =>
        LET n == Len(events)
            r == response[1]
            m == IF n < SeriesWindow THEN n ELSE SeriesWindow
        IN  /\ n = 0 => /\ r.total_requests = 0
                         /\ r.success_rate = 0
                         /\ \A t \in EventTypes : r.event_counts[t] = 0
                         /\ r.cpu_usage = <<0>>
                         /\ r.memory_usage = <<0>>
            /\ n > 0 => /\ Len(r.cpu_usage) = m
                         /\ Len(r.memory_usage) = m
                         /\ \A k \in 1..m : /\ r.cpu_usage[k] = events[n - m + k].cpu
                                             /\ r.memory_usage[k] = events[n - m + k].memory

\* more events than the series hold, the oldest with resources of its own
C12_Witness ==
    /\ outcome = "returned"
    /\ Len(events) > SeriesWindow
    /\ events[1].cpu # events[2].cpu
    /\ Len(response[1].cpu_usage) = SeriesWindow

\* the body of a POST request is missing, empty or no JSON
BodyMissingOrInvalid(req) == req.method = "POST" /\ req.body \in {NoBody, DocEmpty, DocNotJson}

\* C13: cluster_event answers 500 for the event type FAIL in any case of
\* letters, 400 for a POST request whose JSON body is missing or invalid and
\* 200 for every other request, and the status it answers is the status it
\* writes to the log.
C13_AnsweredStatus ==
    \A h \in 1..MaxHandlers :
        handlers[h].pc = "done" =>
            /\ handlers[h].http = IF BodyMissingOrInvalid(handlers[h].req) THEN 400
                                  ELSE IF Upper(handlers[h].req.event_type) = "FAIL" THEN 500
                                  ELSE 200
            /\ handlers[h].status # 0 => handlers[h].http = handlers[h].status

\* cpus and memory of a request, in hundredths
RequestCpu(req) == IF req.method = "GET" THEN FloatVal(req.cpus) ELSE JsonLoads(req.body).cpus.v
RequestMemory(req) == IF req.method = "GET" THEN FloatVal(req.memory) ELSE JsonLoads(req.body).memory.v

\* C19: the records that log_request appends for one cluster_event request,
\* read back alone by parse_logs, give exactly one event, with the event
\* type (in capitals), the collection id, the logged status and the cpus and
\* memory of the request.
C19_RoundTrip ==
    (outcome = "returned" /\ container_ids = NoFilter /\ Quiescent /\ Cardinality(Logged) = 1) =>
        \A h \in Logged :
            /\ Len(events) = 1
            /\ events[1].event_type = << Upper(handlers[h].req.event_type) >>
            /\ events[1].collection_id = << handlers[h].req.collection_id >>
            /\ events[1].status = << handlers[h].status >>
            /\ events[1].cpu = RequestCpu(handlers[h].req)
            /\ events[1].memory = RequestMemory(handlers[h].req)

\* the worker whose path record is line i of the log, if the records of the
\* workers differ
WritersOf(i) == { h \in Logged : lines[i] = PathRecord(handlers[h].req.app, handlers[h].req.container,
                                                       RequestPath(handlers[h].req)) }

\* C20: however the records of two concurrently handled POST events
\* interleave, every event carries the cpus and memory of the payload of its
\* own request.
C20_OwnPayload ==
    (/\ outcome = "returned" /\ container_ids = NoFilter /\ Quiescent
     /\ Cardinality(Logged) = 2
     /\ \A h \in Logged : handlers[h].req.method = "POST") =>
        \A k \in 1..Len(events) : \A h \in WritersOf(events[k].line) :
            /\ events[k].cpu = RequestCpu(handlers[h].req)
            /\ events[k].memory = RequestMemory(handlers[h].req)

(***************************************************************************)
(*              Further properties of the dispatcher                       *)
(***************************************************************************)

\* the response carries a status of the 2xx class
Is2xx(resp) == resp \in {"200", "201"}

\* C14: a submitted row increments exactly one outcome counter by exactly
\* one, the success counter when the response status is any 2xx and the
\* failed counter when it is not 2xx or the request timed out or could not
\* be sent; the run goes on in every case.
C14_OutcomeCounted ==
    [][ \A cid \in CollectionIdValues, ev \in EventValues, resp \in Responses :
            RowPosted(cid, ev, resp) =>
                /\ Is2xx(resp) => /\ successful_requests' = successful_requests + 1
                                   /\ failed_requests' = failed_requests
                /\ ~Is2xx(resp) => /\ failed_requests' = failed_requests + 1
                                    /\ successful_requests' = successful_requests
                /\ pc' \in {"for", "while"} ]_vars

\* the row lacks its collection id or its event, or its collection id is not
\* the text of an integer-valued number
FailsValidation(cid, ev) == IsNa(cid) \/ IsNa(ev) \/ cid \notin {"123", "123.0"}

\* the script handles a row with these columns
RowHandled(cid, ev) ==
    \/ RowSkipped(cid, ev)
    \/ RowCrashed(cid, ev)
    \/ \E resp \in Responses : RowPosted(cid, ev, resp)

\* C15: a row without collection id or event, or whose collection id cannot
\* be coerced, adds exactly one to the failed counter, is not submitted,
\* leaves the success counter alone and advances the cursor of its own
\* bucket by one and no other cursor.
C15_ValidationFailure ==
    [][ \A cid \in CollectionIdValues, ev \in EventValues :
            (FailsValidation(cid, ev) /\ RowHandled(cid, ev)) =>
                /\ failed_requests' = failed_requests + 1
                /\ successful_requests' = successful_requests
                /\ posts' = posts
                /\ current_indices' = [current_indices EXCEPT ![g] = @ + 1] ]_vars

\* the chunk that is being dispatched
CurrentChunk == Chunk(chunk_index - 1)

\* the buckets that hold a row of the chunk; within a bucket the rows are
\* distinct, their ids being strictly increasing
PlacesOf(id) == { b \in 1..Len(priority_groups) :
                    \E j \in 1..Len(priority_groups[b].traces) : priority_groups[b].traces[j].id = id }

\* C17: the buckets partition the rows of the chunk; a row without priority
\* lies in the bucket of priority 0; a bucket keeps its rows in file order;
\* the bucket priorities are distinct and strictly descending; the buckets
\* do not change while the chunk is dispatched.
C17_Partition ==
    pc \in {"while", "for", "drained", "crashed"} =>
        /\ \A k \in 1..Len(CurrentChunk) : Cardinality(PlacesOf(CurrentChunk[k].id)) = 1
        /\ \A b \in 1..Len(priority_groups) :
              /\ \A j \in 1..Len(priority_groups[b].traces) :
                    /\ \E k \in 1..Len(CurrentChunk) : CurrentChunk[k] = priority_groups[b].traces[j]
                    /\ priority_groups[b].priority =
                          IF priority_groups[b].traces[j].na THEN 0 ELSE priority_groups[b].traces[j].pri
              /\ \A i, j \in 1..Len(priority_groups[b].traces) :
                    i < j => priority_groups[b].traces[i].id < priority_groups[b].traces[j].id
              /\ \A c \in 1..Len(priority_groups) :
                    b < c => priority_groups[b].priority > priority_groups[c].priority
        /\ priority_groups = group_by_priority(CurrentChunk)

\* a chunk in dispatch with several buckets, one of which holds a row
\* without priority next to a row of priority 0
C17_Witness ==
    /\ pc = "for"
    /\ Len(priority_groups) >= 2
    /\ posts >= 1
    /\ \E b \in 1..Len(priority_groups) :
          \E i, j \in 1..Len(priority_groups[b].traces) :
              /\ i < j
              /\ priority_groups[b].traces[i].na
              /\ ~priority_groups[b].traces[j].na

\* the row at the cursor of the bucket that is being served
RowAtCursor == priority_groups[g].traces[current_indices[g] + 1]

\* C18: within a chunk a cursor never decreases, a turn advances the cursor
\* of the bucket it serves by exactly one and no other cursor, and no
\* cursor exceeds the length of its bucket; so the row a turn takes is the
\* next row of the bucket, no row is taken a second time, and a turn
\* submits at most one request.
C18_CursorsAdvance ==
    [][ chunk_index' = chunk_index =>
          /\ \A b \in 1..Len(priority_groups) :
                /\ current_indices'[b] \in {current_indices[b], current_indices[b] + 1}
                /\ current_indices'[b] <= Len(priority_groups[b].traces)
                /\ current_indices'[b] # current_indices[b] => b = g
          /\ total_rows_processed' = total_rows_processed => current_indices' = current_indices
          /\ total_rows_processed' # total_rows_processed =>
                /\ total_rows_processed' = total_rows_processed + 1
                /\ RowAtCursor.id \notin taken
                /\ taken' = taken \cup {RowAtCursor.id}
                /\ order' = Append(order, [round |-> round, bucket |-> g, id |-> RowAtCursor.id])
                /\ pc' # "crashed" => current_indices'[g] = current_indices[g] + 1
          /\ posts' \in {posts, posts + 1}
          /\ posts' = posts + 1 => total_rows_processed' = total_rows_processed + 1 ]_vars

\* a bucket served for the second time, after a request was submitted
C18_Witness ==
    /\ pc = "for"
    /\ posts >= 1
    /\ Len(priority_groups) >= 2
    /\ \E b \in 1..Len(priority_groups) : current_indices[b] >= 2

\* C16: the dispatch loop of every chunk terminates: a chunk that is being
\* dispatched reaches the end of process_chunk.
C16_BatchDrains == [](pc \in {"while", "for"} => <>(pc = "drained"))

\* C21: between two rows and at the end of the run the rows taken are the
\* rows counted: every row taken from a bucket was counted once, as
\* successful or as failed, whatever way its handling went.
C21_EveryRowCounted == total_rows_processed = successful_requests + failed_requests

\* the buckets after the one just served that still hold rows
BucketsWaiting == { b \in 1..Len(priority_groups) : b > g /\ ~Exhausted(b) }

\* C22: in every state of a chunk the requests submitted in the chunk, which
\* cycle_requests counts, are at most REQUESTS_PER_CYCLE, whatever the
\* number and the sizes of the buckets; a round is not finished at the cost
\* of the budget.
C22_BudgetRespected ==
    /\ cycle_requests <= REQUESTS_PER_CYCLE
    /\ posts <= REQUESTS_PER_CYCLE

\* the budget is used up in the middle of a round: the for loop was left
\* while buckets after the one just served still hold rows
C22_Witness ==
    /\ pc = "while"
    /\ cycle_requests = REQUESTS_PER_CYCLE
    /\ posts = REQUESTS_PER_CYCLE
    /\ Len(priority_groups) >= 2
    /\ BucketsWaiting # {}
====
